---- MODULE Spec2Model ----
(***************************************************************************)
(* Apollo voice agent: the session controller, the capture path and the    *)
(* playback timeline of the two VoiceAgent components.                     *)
(*                                                                         *)
(*   variant "A"  src/components/VoiceAgent.tsx                            *)
(*   variant "B"  src/unnamed/part_000 (the second VoiceAgent component)   *)
(*                                                                         *)
(* Time is counted in tenths of a second (0.5 s = 5).  A session is named  *)
(* by the number of the startSession call that created it; 0 stands for    *)
(* null in the refs.  Every handler body that runs without an await is one *)
(* action.  A continuation behind an await of an already settled promise   *)
(* (decodeAudioData, a resolved sessionPromise) is a microtask: it waits   *)
(* in the FIFO `microtasks`, and no task (user event, timer, device or     *)
(* socket event) runs before the queue is empty.  The transport may hand   *)
(* over several messages in one turn, so onmessage may be entered while    *)
(* earlier handlers are still suspended.                                   *)
(***************************************************************************)
EXTENDS Integers, Sequences, FiniteSets, TLC

\* ---- bounds -------------------------------------------------------------
MaxSessions == 2
MaxMsgs == 3
MaxTime == 2
MaxBlocks == 2
MaxLifeMsgs == 1
MaxPlaySessions == 1
MaxInMsgs == 2

\* durations of the decoded buffers the transport may deliver (0.2, 0.3, 0.5 s)
Durations == {2, 3, 5}

\* ---- types.ts ------------------------------------------------------------
DISCONNECTED == "disconnected"
CONNECTING == "connecting"
CONNECTED == "connected"
ERROR == "error"
ConnectionState == {DISCONNECTED, CONNECTING, CONNECTED, ERROR}

Variants == {"A", "B"}
Sessions == 1..MaxSessions

VARIABLES
  variant,           \* which component is mounted
  connectionState,   \* useState<ConnectionState>
  isMuted,           \* useState(false)
  streamRef,         \* session whose MediaStream the ref holds, 0 = null
  inputSourceRef,    \* session whose source node the ref holds, 0 = null
  processorRef,      \* session whose ScriptProcessor the ref holds, 0 = null
  activeSessionRef,  \* session held by activeSessionRef, 0 = null
  liveTracks,        \* sessions whose microphone tracks are not stopped
  connectedProc,     \* sessions whose ScriptProcessor is connected (delivers blocks)
  nextStartTime,     \* nextStartTimeRef.current
  scheduledSources,  \* scheduledSourcesRef.current, a set of indices into sources
  sources,           \* every AudioBufferSourceNode created so far
  now,               \* outputCtx.currentTime
  sess,              \* per startSession call: position, transport, closure values
  nSess,             \* number of startSession calls that passed the guard
  microtasks,        \* suspended onmessage handlers, FIFO
  nMsgs,             \* messages handed over by the transport so far
  nBlocks,           \* capture blocks delivered so far
  sent,              \* blocks whose frame was handed to sendRealtimeInput, in order
  sentTo,            \* history: per entry of sent, the session whose transport took the frame
  mutedAt,           \* history: per block, the mute flag and whether the transport was open at its delivery
  chain,             \* history: segments enqueued back-to-back since the last flush/teardown
  lastIntr,          \* history: arrival number of the last message whose interruption was handled
  afterFlush,        \* history: an interruption was handled and nothing was enqueued since
  lastEvent,         \* history: the handler that ran last
  toolResponses,     \* arrival numbers of the messages whose tool calls were answered (sendToolResponse)
  cur,               \* the onmessage run that has read the clock and the cursor and not yet written, or NoRun
  nativeRate,        \* the sample rate of the capture device
  frame,             \* the last blob createPcmBlob returned: sample count, byte count, rate of its descriptor
  dropped,           \* history: arrival numbers of the messages whose audio payload failed to decode
  sample,            \* codec: the float sample under conversion, in units of 1/SampleDen
  pcm,               \* codec: the 16-bit value createPcmBlob stored for it
  decIn,             \* decodeAudioData: byte length of its input and numChannels
  decOut,            \* decodeAudioData: how the call ended and the frames per channel of its buffer
  decoded            \* codec: the value decodeAudioData returns for pcm, in units of 1/32768

vars == <<variant, connectionState, isMuted, streamRef, inputSourceRef, processorRef,
          activeSessionRef, liveTracks, connectedProc, nextStartTime, scheduledSources,
          sources, now, sess, nSess, microtasks, nMsgs, nBlocks, sent, sentTo, mutedAt,
          chain, lastIntr, afterFlush, lastEvent, toolResponses, dropped,
          cur, nativeRate, frame, sample, pcm, decoded, decIn, decOut>>

\* groups used in UNCHANGED
refVars == <<streamRef, inputSourceRef, processorRef, liveTracks, connectedProc>>
playVars == <<nextStartTime, scheduledSources, sources>>
playHist == <<chain, lastIntr, afterFlush>>
capVars == <<nBlocks, sent, sentTo, mutedAt>>
decVars == <<decIn, decOut>>
codecVars == <<sample, pcm, decoded, decVars>>
frameVars == <<nativeRate, frame>>
extVars == <<toolResponses, dropped, cur, codecVars, frameVars>>

\* ---- helpers -------------------------------------------------------------
Max(a, b) == IF a >= b THEN a ELSE b

\* createPcmBlob has not been called yet
NoFrame == [samples |-> 0, bytes |-> 0, mimeRate |-> 0, len |-> 0, inRate |-> 0, block |-> 0]

\* decodeAudioData has not been called
NoBuffer == [status |-> "none", frames |-> 0]

\* the payload of a message of the model: mono, two bytes
NoDecode == [bytes |-> 2, ch |-> 1]

\* no onmessage run is between its read of the cursor and its write
NoRun == [msg |-> 0, dur |-> 0, intr |-> FALSE, t |-> 0, next |-> 0]

NoSession == [pc |-> "idle", tr |-> "none", capState |-> DISCONNECTED,
              capMuted |-> FALSE, pend |-> <<>>]

\* a segment has played to its end on the device clock
Finished(src, t) == t >= src.start + src.dur

\* source.stop() inside try/catch, for every member of the set: a stop that
\* throws (the node already finished) is swallowed and the loop goes on
StopAllFirstThrowAborts(S, srcs, t) ==
  [i \in DOMAIN srcs |->
     IF i \in S /\ ~ \E j \in S : j <= i /\ Finished(srcs[j], t) /\ ~srcs[j].stopped
     THEN [srcs[i] EXCEPT !.stopped = TRUE] ELSE srcs[i]]

StopAll(S, srcs, t) ==
  [i \in DOMAIN srcs |-> IF i \in S THEN [srcs[i] EXCEPT !.stopped = TRUE] ELSE srcs[i]]

\* Math.max(now, nextStartTimeRef.current)                      (variant A)
startTimeA(t, next) == Max(t, next)

\* nextStartTimeRef.current < currentTime ? currentTime : nextStartTimeRef.current   (variant B)
startTimeB(t, next) == IF next < t THEN t ELSE next

startTime_now(v, t, next) == t

startTime(v, t, next) == IF v = "A" THEN startTimeA(t, next) ELSE startTimeB(t, next)

\* nextStartTimeRef.current = startTime + audioBuffer.duration
cursorAfterEnqueue_noAdd(start, dur) == start

cursorAfterEnqueue(start, dur) == start + dur

\* nextStartTimeRef.current = outputCtx.currentTime  (interruption)
cursorAfterFlush(t) == t

\* nextStartTimeRef.current = 0  (stopAudio)
cursorAfterStopAudio_keep(next) == next

cursorAfterStopAudio_flip(next) == IF next = 0 THEN 1 ELSE 0

cursorAfterStopAudio(next) == 0

InitController ==
  /\ variant \in Variants
  /\ connectionState = DISCONNECTED
  /\ isMuted = FALSE
  /\ streamRef = 0 /\ inputSourceRef = 0 /\ processorRef = 0 /\ activeSessionRef = 0
  /\ liveTracks = {} /\ connectedProc = {}
  /\ nextStartTime = 0 /\ scheduledSources = {} /\ sources = <<>>
  /\ now = 0
  /\ sess = [s \in Sessions |-> NoSession]
  /\ nSess = 0
  /\ microtasks = <<>>
  /\ nMsgs = 0
  /\ nBlocks = 0 /\ sent = <<>> /\ sentTo = <<>> /\ mutedAt = <<>>
  /\ chain = <<>> /\ lastIntr = 0 /\ afterFlush = FALSE
  /\ lastEvent = "init"
  /\ toolResponses = <<>> /\ dropped = {}
  /\ cur = NoRun
  /\ frame = NoFrame
  /\ decOut = NoBuffer

Init ==
  /\ InitController
  /\ nativeRate = 48000
  /\ decIn = NoDecode
  /\ sample = 0 /\ pcm = 0 /\ decoded = 0

\* ---- audioUtils.ts: the sample codec ---------------------------------------
\* A float sample is counted in units of 1/SampleDen (1.0 = SampleDen); every
\* such value is a float32, and so are its products with the scales below.
SampleDen == 2 * 32768
Samples == (-SampleDen)..SampleDen

\* s * 0x8000, s * 0x7FFF (createPcmBlob); int16 / 32768.0 (decodeAudioData)
NegScale == 32768
PosScale == 32767
DecodeScale == 32768

Min(a, b) == IF a <= b THEN a ELSE b

Abs(a) == IF a >= 0 THEN a ELSE -a

\* the integer part of x / d (d > 0), rounding toward zero, as the store into
\* an Int16Array does
TruncDiv(x, d) == IF x >= 0 THEN x \div d ELSE (x + (d - 1)) \div d

\* the Int16Array store: the integer part, modulo 2^16 into -32768..32767
ToInt16(x) == ((x + 32768) % 65536) - 32768

\* const s = Math.max(-1, Math.min(1, data[i]))
clamp(n) == Max(-SampleDen, Min(SampleDen, n))

\* int16[i] = s < 0 ? s * 0x8000 : s * 0x7FFF
quantize_oneScale(n) == ToInt16(TruncDiv(clamp(n) * PosScale, SampleDen))

quantize(n) ==
  IF clamp(n) < 0 THEN ToInt16(TruncDiv(clamp(n) * NegScale, SampleDen))
  ELSE ToInt16(TruncDiv(clamp(n) * PosScale, SampleDen))

\* channelData[i] = dataInt16[i] / 32768.0, in units of 1/SampleDen (the
\* quotient is exact: SampleDen is a multiple of DecodeScale)
decodeSample(q) == (q * SampleDen) \div DecodeScale

\* ---- capture: from a block of the device to a frame ------------------------
\* createScriptProcessor(4096, 1, 1): the length of a capture block
BlockSize == 4096

\* mimeType: 'audio/pcm;rate=16000', the rate the frames are sent at
PcmRate == 16000

\* new AudioContext({ sampleRate: 16000 }): the input context of A
InputRateA == 16000

\* the rates a capture device may run at
NativeRates == {8000, 16000, 44100, 48000}

\* inputCtx.sampleRate: A asks for a 16 kHz context (the browser converts the
\* microphone stream to it), B takes the context at the rate of the device
inputSampleRate_native(v, native) == native

inputSampleRate(v, native) == IF v = "A" THEN InputRateA ELSE native

CeilDiv_floor(a, b) == a \div b

CeilDiv(a, b) == (a + (b - 1)) \div b

\* the resampler behind B's createPcmBlob(inputData, inputCtx.sampleRate):
\* the block as it is when the rates agree, else ceil(length / ratio) samples
\* with ratio = inputRate / targetRate
resampleLength_none(len, rate) == len

resampleLength(len, rate) ==
  IF rate = PcmRate THEN len ELSE CeilDiv(len * PcmRate, rate)

\* createPcmBlob: one 16-bit value per sample (A: per sample of the block,
\* B: per resampled sample), base64 of the Int16Array's buffer, the fixed
\* descriptor
pcmBlob(v, len, rate, b) ==
  LET n == IF v = "A" THEN len ELSE resampleLength(len, rate)
  IN [samples |-> n, bytes |-> 2 * n, mimeRate |-> PcmRate, len |-> len,
      inRate |-> rate, block |-> b]

\* the codec applied to one sample drawn from [-1, 1]
InitCodec ==
  /\ InitController
  /\ variant = "A"
  /\ nativeRate = 48000
  /\ decIn = NoDecode
  /\ sample \in Samples
  /\ pcm = 0 /\ decoded = 0

ctrlVars == <<variant, connectionState, isMuted, refVars, activeSessionRef, playVars,
              playHist, now, sess, nSess, microtasks, nMsgs, capVars,
              toolResponses, dropped, cur, nativeRate>>

\* samples as far outside [-1, 1] as ClipMargin units
ClipMargin == 2

InitQuant ==
  /\ InitController
  /\ variant = "A"
  /\ nativeRate = 48000
  /\ decIn = NoDecode
  /\ sample \in (-SampleDen - ClipMargin)..(SampleDen + ClipMargin)
  /\ pcm = 0 /\ decoded = 0

\* createPcmBlob on a block that holds the sample (onaudioprocess hands it
\* the block)
CreatePcmBlob ==
  /\ lastEvent = "init"
  /\ pcm' = quantize(sample)
  /\ frame' = pcmBlob(variant, BlockSize, inputSampleRate(variant, nativeRate), 1)
  /\ lastEvent' = "encode"
  /\ UNCHANGED <<ctrlVars, sample, decoded, decVars>>

\* decodeAudioData on the 16-bit value
DecodeAudioData ==
  /\ lastEvent = "encode"
  /\ decoded' = decodeSample(pcm)
  /\ lastEvent' = "decode"
  /\ UNCHANGED <<ctrlVars, frame, sample, pcm, decVars>>

\* ---- audioUtils.ts: decodeAudioData on a byte array -------------------------
MaxBytes == 40
MaxChannels == 3

\* new Int16Array(data.buffer) throws a RangeError when the byte length of
\* the buffer is odd
int16View(bytes) == bytes % 2 = 0

\* frameCount = dataInt16.length / numChannels is a real number; createBuffer
\* takes its length as an unsigned long, which drops the fraction
frameCount(bytes, ch) == (bytes \div 2) \div ch

\* ctx.createBuffer(numChannels, frameCount, sampleRate) throws a
\* NotSupportedError for a length of 0; the copy loop then fills the
\* channels and cannot fail (a store past the end of a Float32Array is
\* ignored)
decodeBuffer(bytes, ch) ==
  IF ~int16View(bytes) THEN [status |-> "error", frames |-> 0]
  ELSE IF frameCount(bytes, ch) = 0 THEN [status |-> "error", frames |-> 0]
  ELSE [status |-> "ok", frames |-> frameCount(bytes, ch)]

InitDecode ==
  /\ InitController
  /\ nativeRate = 48000
  /\ decIn \in [bytes : 0..MaxBytes, ch : 1..MaxChannels]
  /\ sample = 0 /\ pcm = 0 /\ decoded = 0

\* decodeAudioData(data, ctx, sampleRate, numChannels)
DecodeBuffer ==
  /\ lastEvent = "init"
  /\ decOut' = decodeBuffer(decIn.bytes, decIn.ch)
  /\ lastEvent' = "decodeBuffer"
  /\ UNCHANGED <<ctrlVars, frame, sample, pcm, decoded, decIn>>

\* no handler is suspended behind a settled promise: the next task may run
Idle == microtasks = <<>>

\* ---- playback timeline (onmessage, audio output and interruption) ---------
\* the playback state as one value, so that a handler can enqueue and flush
\* in the same run
Play == [next |-> nextStartTime, sched |-> scheduledSources, srcs |-> sources,
         chain |-> chain, lastIntr |-> lastIntr, afterFlush |-> afterFlush]

\* const now = outputCtx.currentTime; startTime = max(now, cursor);
\* sourceNode.start(startTime); cursor = startTime + duration; set.add(sourceNode)
enqueue_noTrack(v, p, t, dur, msg) ==
  LET st == startTime(v, t, p.next)
  IN [p EXCEPT
        !.next = cursorAfterEnqueue(st, dur),
        !.srcs = Append(@, [start |-> st, dur |-> dur, msg |-> msg, at |-> t,
                            postFlush |-> p.afterFlush,
                            stopped |-> FALSE, cancelled |-> FALSE,
                            ended |-> FALSE]),
        !.chain = IF p.chain = <<>> \/ t <= p.next THEN Append(p.chain, Len(p.srcs) + 1)
                  ELSE <<Len(p.srcs) + 1>>,
        !.afterFlush = FALSE]

enqueue(v, p, t, dur, msg) ==
  LET st == startTime(v, t, p.next)
      id == Len(p.srcs) + 1
  IN [p EXCEPT
        !.next = cursorAfterEnqueue(st, dur),
        !.srcs = Append(@, [start |-> st, dur |-> dur, msg |-> msg, at |-> t,
                            postFlush |-> p.afterFlush,
                            stopped |-> FALSE, cancelled |-> FALSE,
                            ended |-> FALSE]),
        !.sched = @ \cup {id},
        !.chain = IF p.chain = <<>> \/ t <= p.next THEN Append(p.chain, id) ELSE <<id>>,
        !.afterFlush = FALSE]

\* history: the sources an interruption stopped (stopAudio stops sources too)
Cancel(S, srcs) ==
  [i \in DOMAIN srcs |-> IF i \in S THEN [srcs[i] EXCEPT !.cancelled = TRUE] ELSE srcs[i]]

\* if (message.serverContent?.interrupted): stop every tracked source, clear
\* the set, cursor = outputCtx.currentTime
flush_keepCursor(p, t, msg) ==
  [p EXCEPT !.srcs = Cancel(p.sched, StopAll(p.sched, p.srcs, t)),
            !.sched = {},
            !.chain = <<>>, !.lastIntr = msg, !.afterFlush = TRUE]

flush(p, t, msg) ==
  [p EXCEPT !.srcs = Cancel(p.sched, StopAll(p.sched, p.srcs, t)),
            !.sched = {},
            !.next = cursorAfterFlush(t),
            !.chain = <<>>, !.lastIntr = msg, !.afterFlush = TRUE]

SetPlay(p) ==
  /\ nextStartTime' = p.next
  /\ scheduledSources' = p.sched
  /\ sources' = p.srcs
  /\ chain' = p.chain
  /\ lastIntr' = p.lastIntr
  /\ afterFlush' = p.afterFlush

\* ---- stopAudio ------------------------------------------------------------
\* the same text in both components
stopAudio ==
  /\ liveTracks' = liveTracks \ {streamRef}
  /\ streamRef' = 0
  /\ connectedProc' = connectedProc \ {processorRef}
  /\ processorRef' = 0
  /\ inputSourceRef' = 0
  /\ sources' = StopAll(scheduledSources, sources, now)
  /\ scheduledSources' = {}
  /\ nextStartTime' = cursorAfterStopAudio(nextStartTime)
  /\ chain' = <<>>

\* ---- startSession ---------------------------------------------------------
\* The Start button is rendered only while the state is Disconnected or Error
\* (A: hidden when connected, disabled when connecting), and the handler it
\* calls is the one of the latest render: connectionState and isMuted seen by
\* the closures created in this call are the values of this moment.
NewSession(v) ==
  [pc |-> "gum", tr |-> "none", capState |-> connectionState,
   capMuted |-> isMuted, pend |-> <<>>]

\* A: setConnectionState(CONNECTING) ... await getUserMedia
StartSessionA ==
  /\ variant = "A" /\ Idle
  /\ connectionState \in {DISCONNECTED, ERROR}
  /\ nSess < MaxSessions
  /\ nSess' = nSess + 1
  /\ sess' = [sess EXCEPT ![nSess + 1] = NewSession("A")]
  /\ connectionState' = CONNECTING
  /\ lastEvent' = "start"
  /\ UNCHANGED <<variant, isMuted, refVars, activeSessionRef, playVars, playHist,
                 now, microtasks, nMsgs, capVars, extVars>>

\* B: if (CONNECTING || CONNECTED) return; setConnectionState(CONNECTING) ... await getUserMedia
StartSessionB ==
  /\ variant = "B" /\ Idle
  /\ connectionState \in {DISCONNECTED, ERROR}
  /\ ~(connectionState = CONNECTING \/ connectionState = CONNECTED)
  /\ nSess < MaxSessions
  /\ nSess' = nSess + 1
  /\ sess' = [sess EXCEPT ![nSess + 1] = NewSession("B")]
  /\ connectionState' = CONNECTING
  /\ lastEvent' = "start"
  /\ UNCHANGED <<variant, isMuted, refVars, activeSessionRef, playVars, playHist,
                 now, microtasks, nMsgs, capVars, extVars>>

\* startSession called while the state is Connecting or Connected.
\* A: the function has no guard of its own (the view disables the Start button
\* while connecting and hides it while connected): the body runs as in any
\* other state
StartAgainA ==
  /\ variant = "A" /\ Idle
  /\ connectionState \in {CONNECTING, CONNECTED}
  /\ nSess < MaxSessions
  /\ nSess' = nSess + 1
  /\ sess' = [sess EXCEPT ![nSess + 1] = NewSession("A")]
  /\ connectionState' = CONNECTING
  /\ lastEvent' = "startAgain"
  /\ UNCHANGED <<variant, isMuted, refVars, activeSessionRef, playVars, playHist,
                 now, microtasks, nMsgs, capVars, extVars>>

\* B: if (connectionState === CONNECTING || connectionState === CONNECTED) return
StartAgainB ==
  /\ variant = "B" /\ Idle
  /\ connectionState = CONNECTING \/ connectionState = CONNECTED
  /\ lastEvent' = "startAgain"
  /\ UNCHANGED <<variant, connectionState, isMuted, refVars, activeSessionRef, playVars,
                 playHist, now, sess, nSess, microtasks, nMsgs, capVars, extVars>>

\* A: getUserMedia resolves: the refs are set, the input pipeline is connected,
\* ai.live.connect is called and onaudioprocess is installed; the call returns
GetUserMediaOkA(s) ==
  /\ variant = "A" /\ Idle
  /\ sess[s].pc = "gum"
  /\ streamRef' = s
  /\ liveTracks' = liveTracks \cup {s}
  /\ inputSourceRef' = s
  /\ processorRef' = s
  /\ connectedProc' = connectedProc \cup {s}
  /\ sess' = [sess EXCEPT ![s].pc = "done", ![s].tr = "pending"]
  /\ lastEvent' = "gumOk"
  /\ UNCHANGED <<variant, connectionState, isMuted, activeSessionRef, playVars, playHist,
                 now, nSess, microtasks, nMsgs, capVars, extVars>>

\* A: getUserMedia rejects: throw new Error(msg), caught by the outer catch:
\* setConnectionState(ERROR); stopAudio()
GetUserMediaFailA(s) ==
  /\ variant = "A" /\ Idle
  /\ sess[s].pc = "gum"
  /\ sess' = [sess EXCEPT ![s].pc = "done"]
  /\ connectionState' = ERROR
  /\ stopAudio
  /\ lastEvent' = "gumFail"
  /\ UNCHANGED <<variant, isMuted, activeSessionRef, lastIntr, afterFlush,
                 now, nSess, microtasks, nMsgs, capVars, extVars>>

\* B: getUserMedia resolves: streamRef.current = stream; ai.live.connect is
\* called and the function waits at `await sessionPromise`
GetUserMediaOkB(s) ==
  /\ variant = "B" /\ Idle
  /\ sess[s].pc = "gum"
  /\ streamRef' = s
  /\ liveTracks' = liveTracks \cup {s}
  /\ sess' = [sess EXCEPT ![s].pc = "conn", ![s].tr = "pending"]
  /\ lastEvent' = "gumOk"
  /\ UNCHANGED <<variant, connectionState, isMuted, inputSourceRef, processorRef,
                 connectedProc, activeSessionRef, playVars, playHist,
                 now, nSess, microtasks, nMsgs, capVars, extVars>>

\* B: getUserMedia rejects: setConnectionState(ERROR); return
GetUserMediaFailB_silent(s) ==
  /\ variant = "B" /\ Idle
  /\ sess[s].pc = "gum"
  /\ sess' = [sess EXCEPT ![s].pc = "done"]
  /\ lastEvent' = "gumFail"
  /\ UNCHANGED <<variant, connectionState, isMuted, refVars, activeSessionRef, playVars,
                 playHist, now, nSess, microtasks, nMsgs, capVars, extVars>>

GetUserMediaFailB(s) ==
  /\ variant = "B" /\ Idle
  /\ sess[s].pc = "gum"
  /\ sess' = [sess EXCEPT ![s].pc = "done"]
  /\ connectionState' = ERROR
  /\ lastEvent' = "gumFail"
  /\ UNCHANGED <<variant, isMuted, refVars, activeSessionRef, playVars, playHist,
                 now, nSess, microtasks, nMsgs, capVars, extVars>>

\* ---- transport callbacks --------------------------------------------------
\* The SDK fires onopen and then resolves sessionPromise in the same turn;
\* what waits on the promise runs right behind onopen.

\* the callbacks registered with sessionPromise.then run in the order of
\* their registration
thenCallbacks_reversed(q) == [k \in 1..Len(q) |-> q[Len(q) + 1 - k]]

thenCallbacks(q) == q

\* A: onopen: setConnectionState(CONNECTED).  Then every queued
\* sessionPromise.then of onaudioprocess runs: activeSessionRef.current =
\* session; session.sendRealtimeInput(...)
OnOpenA(s) ==
  /\ variant = "A" /\ Idle
  /\ sess[s].tr = "pending"
  /\ connectionState' = CONNECTED
  /\ activeSessionRef' = IF sess[s].pend # <<>> THEN s ELSE activeSessionRef
  /\ sent' = sent \o thenCallbacks(sess[s].pend)
  /\ sentTo' = sentTo \o [k \in 1..Len(sess[s].pend) |-> s]
  /\ sess' = [sess EXCEPT ![s].tr = "open", ![s].pend = <<>>]
  /\ lastEvent' = "open"
  /\ UNCHANGED <<variant, isMuted, refVars, playVars, playHist,
                 now, nSess, microtasks, nMsgs, nBlocks, mutedAt, extVars>>

\* B: onopen: setConnectionState(CONNECTED); the source and the processor are
\* created from the stream of this call and connected; the refs are set.
\* Then startSession resumes: activeSessionRef.current = session
OnOpenB(s) ==
  /\ variant = "B" /\ Idle
  /\ sess[s].tr = "pending"
  /\ connectionState' = CONNECTED
  /\ inputSourceRef' = s
  /\ processorRef' = s
  /\ connectedProc' = connectedProc \cup {s}
  /\ activeSessionRef' = s
  /\ sess' = [sess EXCEPT ![s].tr = "open", ![s].pc = "done"]
  /\ lastEvent' = "open"
  /\ UNCHANGED <<variant, isMuted, streamRef, liveTracks, playVars, playHist,
                 now, nSess, microtasks, nMsgs, capVars, extVars>>

\* A: sessionPromise.catch: setConnectionState(ERROR); stopAudio().  The
\* queued sends never run.
ConnectRejectA(s) ==
  /\ variant = "A" /\ Idle
  /\ sess[s].tr = "pending"
  /\ sess' = [sess EXCEPT ![s].tr = "failed", ![s].pend = <<>>]
  /\ connectionState' = ERROR
  /\ stopAudio
  /\ lastEvent' = "reject"
  /\ UNCHANGED <<variant, isMuted, activeSessionRef, lastIntr, afterFlush,
                 now, nSess, microtasks, nMsgs, capVars, extVars>>

\* B: `await sessionPromise` throws into the catch of startSession:
\* setConnectionState(ERROR); stopAudio()
ConnectRejectB(s) ==
  /\ variant = "B" /\ Idle
  /\ sess[s].tr = "pending"
  /\ sess' = [sess EXCEPT ![s].tr = "failed", ![s].pc = "done"]
  /\ connectionState' = ERROR
  /\ stopAudio
  /\ lastEvent' = "reject"
  /\ UNCHANGED <<variant, isMuted, activeSessionRef, lastIntr, afterFlush,
                 now, nSess, microtasks, nMsgs, capVars, extVars>>

\* onerror (both): setConnectionState(ERROR); stopAudio()
OnError(s) ==
  /\ Idle
  /\ sess[s].tr \in {"pending", "open"}
  /\ sess' = [sess EXCEPT ![s].tr = "errored"]
  /\ connectionState' = ERROR
  /\ stopAudio
  /\ lastEvent' = "error"
  /\ UNCHANGED <<variant, isMuted, activeSessionRef, lastIntr, afterFlush,
                 now, nSess, microtasks, nMsgs, capVars, extVars>>

\* A: onclose: if (connectionState === CONNECTED) setConnectionState(DISCONNECTED),
\* where connectionState is the value startSession closed over
OnCloseA(s) ==
  /\ variant = "A" /\ Idle
  /\ sess[s].tr \in {"open", "closing", "errored"}
  /\ sess' = [sess EXCEPT ![s].tr = "closed"]
  /\ connectionState' = IF sess[s].capState = CONNECTED THEN DISCONNECTED
                        ELSE connectionState
  /\ lastEvent' = "close"
  /\ UNCHANGED <<variant, isMuted, refVars, activeSessionRef, playVars, playHist,
                 now, nSess, microtasks, nMsgs, capVars, extVars>>

\* B: onclose: setConnectionState(DISCONNECTED); stopAudio()
OnCloseB(s) ==
  /\ variant = "B" /\ Idle
  /\ sess[s].tr \in {"open", "closing", "errored"}
  /\ sess' = [sess EXCEPT ![s].tr = "closed"]
  /\ connectionState' = DISCONNECTED
  /\ stopAudio
  /\ lastEvent' = "close"
  /\ UNCHANGED <<variant, isMuted, activeSessionRef, lastIntr, afterFlush,
                 now, nSess, microtasks, nMsgs, capVars, extVars>>

\* ---- endSession -----------------------------------------------------------
\* The End button's handler and the cleanup of the component's effect.
\* session.close() starts the closing handshake; onclose follows later.
closeActive ==
  sess' = IF activeSessionRef # 0 /\ sess[activeSessionRef].tr = "open"
          THEN [sess EXCEPT ![activeSessionRef].tr = "closing"]
          ELSE sess

\* A: stopAudio(); if (activeSessionRef.current) { close(); = null }; DISCONNECTED
endSessionA(ev) ==
  /\ variant = "A" /\ Idle
  /\ stopAudio
  /\ closeActive
  /\ activeSessionRef' = 0
  /\ connectionState' = DISCONNECTED
  /\ lastEvent' = ev
  /\ UNCHANGED <<variant, isMuted, lastIntr, afterFlush,
                 now, nSess, microtasks, nMsgs, capVars, extVars>>

EndSessionA == endSessionA("endSession")

\* B: if (activeSessionRef.current) { close(); = null }; stopAudio(); DISCONNECTED
endSessionB(ev) ==
  /\ variant = "B" /\ Idle
  /\ closeActive
  /\ activeSessionRef' = 0
  /\ stopAudio
  /\ connectionState' = DISCONNECTED
  /\ lastEvent' = ev
  /\ UNCHANGED <<variant, isMuted, lastIntr, afterFlush,
                 now, nSess, microtasks, nMsgs, capVars, extVars>>

EndSessionB == endSessionB("endSession")

\* endSession called again right after endSession returned (the End button
\* and the effect cleanup may both call it)
EndSessionAgainA ==
  /\ lastEvent \in {"endSession", "endSessionAgain"}
  /\ endSessionA("endSessionAgain")

EndSessionAgainB ==
  /\ lastEvent \in {"endSession", "endSessionAgain"}
  /\ endSessionB("endSessionAgain")

\* toggleMute: setIsMuted(!isMuted); the button is rendered while connected
\* (A) or while connecting or connected (B)
ToggleMute ==
  /\ Idle
  /\ \/ variant = "A" /\ connectionState = CONNECTED
     \/ variant = "B" /\ connectionState \in {CONNECTING, CONNECTED}
  /\ isMuted' = ~isMuted
  /\ lastEvent' = "toggleMute"
  /\ UNCHANGED <<variant, connectionState, refVars, activeSessionRef, playVars, playHist,
                 now, sess, nSess, microtasks, nMsgs, capVars, extVars>>

\* ---- onmessage ------------------------------------------------------------
\* A message carries an audio payload of duration dur (0: none) and, or, the
\* interrupted flag.  With a payload the handler suspends at
\* `await decodeAudioData(...)`; without one it goes straight on to the
\* interruption branch.
OnMessage(s, dur, intr) ==
  /\ sess[s].tr = "open"
  /\ nMsgs < MaxMsgs
  /\ dur # 0 \/ intr
  /\ nMsgs' = nMsgs + 1
  /\ IF dur # 0
     THEN /\ microtasks' = Append(microtasks, [msg |-> nMsgs + 1, dur |-> dur, intr |-> intr,
                                              bad |-> FALSE, stage |-> "audio"])
          /\ lastEvent' = "message"
          /\ UNCHANGED <<playVars, playHist>>
     ELSE /\ SetPlay(flush(Play, now, nMsgs + 1))
          /\ lastEvent' = "flush"
          /\ UNCHANGED microtasks
  /\ UNCHANGED <<variant, connectionState, isMuted, refVars, activeSessionRef,
                 now, sess, nSess, capVars, extVars>>

\* the handler at the head of the microtask queue resumes behind its await:
\* the decoded buffer is scheduled, then the interruption branch runs
Resume ==
  /\ microtasks # <<>>
  /\ Head(microtasks).stage = "audio" /\ ~Head(microtasks).bad
  /\ LET h == Head(microtasks)
         p == enqueue(variant, Play, now, h.dur, h.msg)
     IN /\ SetPlay(IF h.intr THEN flush(p, now, h.msg) ELSE p)
        /\ lastEvent' = IF h.intr THEN "enqueueFlush" ELSE "enqueue"
  /\ microtasks' = Tail(microtasks)
  /\ UNCHANGED <<variant, connectionState, isMuted, refVars, activeSessionRef,
                 now, sess, nSess, nMsgs, capVars, extVars>>

\* ---- onmessage: tool calls and payloads that fail to decode ---------------
\* The tool-call part of a message: "known" names a tool of the component
\* with the arguments it reads, "unknown" a name the component does not
\* handle, "throws" a call whose arguments are missing (fc.args[...] or
\* query.toLowerCase() on undefined throws out of the handler).
ToolCalls == {"none", "known", "unknown", "throws"}

\* the tool-call branch reads and writes no playback state (A plays a cue on
\* the output context, B fills the info cards)
onToolCall_flush(p, t) == [p EXCEPT !.sched = {}, !.next = t]

onToolCall(p, t) == p

\* a payload whose byte length is odd: new Int16Array(data.buffer) throws in
\* decodeAudioData.  A: the rejection ends the handler.  B: catch (e) {
\* console.error(e) }
onDecodeError_reset(p, t) == [p EXCEPT !.sched = {}, !.next = 0]

onDecodeError(p, t) == p

\* A answers every call (result {} for a name it does not know) through
\* sessionPromise.then; B answers the names it knows, behind await sessionPromise
Answers(v, tool) == IF v = "A" THEN tool \in {"known", "unknown"} ELSE tool = "known"

\* the handler from `const base64Audio = ...` on, with q the microtask queue
\* and p the playback state it found: with a payload it suspends at the await
\* of decodeAudioData, else it goes on to the interruption branch
fromAudioPart(h, q, p, ev) ==
  IF h.dur # 0 \/ h.bad
  THEN /\ microtasks' = Append(q, [h EXCEPT !.stage = "audio"])
       /\ SetPlay(p)
       /\ lastEvent' = ev
  ELSE /\ microtasks' = q
       /\ SetPlay(IF h.intr THEN flush(p, now, h.msg) ELSE p)
       /\ lastEvent' = IF h.intr THEN "toolFlush" ELSE ev

\* onmessage for a message with a tool-call part, or with a payload that
\* fails to decode, up to its first await
OnInbound(s, tool, dur, bad, intr) ==
  /\ sess[s].tr = "open"
  /\ nMsgs < MaxMsgs
  /\ tool # "none" \/ bad
  /\ bad => dur = 0
  /\ nMsgs' = nMsgs + 1
  /\ LET h == [msg |-> nMsgs + 1, dur |-> dur, intr |-> intr, bad |-> bad, stage |-> "audio"]
         p == IF tool = "none" THEN Play ELSE onToolCall(Play, now)
     IN IF tool = "throws"
        THEN /\ lastEvent' = "toolThrow"
             /\ UNCHANGED <<microtasks, playVars, playHist>>
        ELSE IF variant = "B" /\ Answers("B", tool)
        THEN /\ microtasks' = Append(microtasks, [h EXCEPT !.stage = "tool"])
             /\ SetPlay(p)
             /\ lastEvent' = "tool"
        ELSE fromAudioPart(h,
                           IF variant = "A" /\ Answers("A", tool)
                           THEN Append(microtasks, [h EXCEPT !.stage = "toolSend"])
                           ELSE microtasks,
                           p,
                           IF tool = "none" THEN "message" ELSE "tool")
  /\ UNCHANGED <<variant, connectionState, isMuted, refVars, activeSessionRef,
                 now, sess, nSess, capVars, extVars>>

\* A: the sessionPromise.then callback runs: session.sendToolResponse(...).
\* B: the handler resumes behind `await sessionPromise`: sendToolResponse,
\* then the audio part and the interruption branch
ResumeTool ==
  /\ microtasks # <<>>
  /\ Head(microtasks).stage \in {"tool", "toolSend"}
  /\ toolResponses' = Append(toolResponses, Head(microtasks).msg)
  /\ IF Head(microtasks).stage = "toolSend"
     THEN /\ microtasks' = Tail(microtasks)
          /\ lastEvent' = "toolSend"
          /\ UNCHANGED <<playVars, playHist>>
     ELSE fromAudioPart(Head(microtasks), Tail(microtasks), Play, "toolResume")
  /\ UNCHANGED <<variant, connectionState, isMuted, refVars, activeSessionRef,
                 now, sess, nSess, nMsgs, capVars, dropped, cur, codecVars, frameVars>>

\* the handler resumes behind `await decodeAudioData(...)` with the rejection
ResumeBad ==
  /\ microtasks # <<>>
  /\ Head(microtasks).stage = "audio" /\ Head(microtasks).bad
  /\ dropped' = dropped \cup {Head(microtasks).msg}
  /\ microtasks' = Tail(microtasks)
  /\ LET h == Head(microtasks)
         p == onDecodeError(Play, now)
     IN IF variant = "B" /\ h.intr
        THEN /\ SetPlay(flush(p, now, h.msg))
             /\ lastEvent' = "dropFlush"
        ELSE /\ SetPlay(p)
             /\ lastEvent' = "drop"
  /\ UNCHANGED <<variant, connectionState, isMuted, refVars, activeSessionRef,
                 now, sess, nSess, nMsgs, capVars, toolResponses, cur, codecVars,
                 frameVars>>

\* ---- onmessage behind the await, statement by statement --------------------
\* Between `const now = outputCtx.currentTime` and the end of the interruption
\* branch the handler has no await: the event loop runs it to completion, and
\* another task or microtask starts only when no run is in progress.
MayRun_any(c) == TRUE

MayRun(c) == c = NoRun

\* const now = outputCtx.currentTime; the read of nextStartTimeRef.current
ResumeRead ==
  /\ cur = NoRun
  /\ microtasks # <<>>
  /\ Head(microtasks).stage = "audio" /\ ~Head(microtasks).bad
  /\ LET h == Head(microtasks)
     IN cur' = [msg |-> h.msg, dur |-> h.dur, intr |-> h.intr, t |-> now,
                next |-> nextStartTime]
  /\ microtasks' = Tail(microtasks)
  /\ lastEvent' = "read"
  /\ UNCHANGED <<variant, connectionState, isMuted, refVars, activeSessionRef, playVars,
                 playHist, now, sess, nSess, nMsgs, capVars, toolResponses, dropped,
                 codecVars, frameVars>>

\* start(startTime), the write of the cursor, the insertion into the set and
\* the interruption branch, from the values the run has read
ResumeWrite ==
  /\ cur # NoRun
  /\ LET p == enqueue(variant, [Play EXCEPT !.next = cur.next], cur.t, cur.dur, cur.msg)
     IN /\ SetPlay(IF cur.intr THEN flush(p, now, cur.msg) ELSE p)
        /\ lastEvent' = IF cur.intr THEN "enqueueFlush" ELSE "enqueue"
  /\ cur' = NoRun
  /\ UNCHANGED <<variant, connectionState, isMuted, refVars, activeSessionRef,
                 now, sess, nSess, microtasks, nMsgs, capVars, toolResponses, dropped,
                 codecVars, frameVars>>

\* sourceNode.onended: scheduledSourcesRef.current.delete(sourceNode).  The
\* ended event follows the natural end of the buffer and also a stop().
OnEnded(i) ==
  /\ Idle
  /\ i \in DOMAIN sources
  /\ ~sources[i].ended
  /\ sources[i].stopped \/ Finished(sources[i], now)
  /\ sources' = [sources EXCEPT ![i].ended = TRUE]
  /\ scheduledSources' = scheduledSources \ {i}
  /\ lastEvent' = "ended"
  /\ UNCHANGED <<variant, connectionState, isMuted, refVars, activeSessionRef,
                 nextStartTime, playHist, now, sess, nSess, microtasks, nMsgs, capVars, extVars>>

\* ---- capture --------------------------------------------------------------
\* processor.onaudioprocess of the processor created by call s.  isMuted is
\* the value startSession closed over.  A sends through sessionPromise.then:
\* at once when the promise is resolved, when it resolves if it is pending,
\* never if it was rejected; the callback also sets activeSessionRef.
AudioProcessA(s) ==
  /\ variant = "A" /\ Idle
  /\ s \in connectedProc
  /\ nBlocks < MaxBlocks
  /\ nBlocks' = nBlocks + 1
  /\ mutedAt' = Append(mutedAt, [muted |-> isMuted, running |-> sess[s].tr = "open"])
  /\ frame' = IF sess[s].capMuted THEN frame
               ELSE pcmBlob("A", BlockSize, inputSampleRate("A", nativeRate), nBlocks + 1)
  /\ IF sess[s].capMuted \/ sess[s].tr = "failed"
     THEN UNCHANGED <<sess, sent, sentTo, activeSessionRef>>
     ELSE IF sess[s].tr = "pending"
     THEN /\ sess' = [sess EXCEPT ![s].pend = Append(@, nBlocks + 1)]
          /\ UNCHANGED <<sent, sentTo, activeSessionRef>>
     ELSE /\ sent' = Append(sent, nBlocks + 1)
          /\ sentTo' = Append(sentTo, s)
          /\ activeSessionRef' = s
          /\ UNCHANGED sess
  /\ lastEvent' = "audioprocess"
  /\ UNCHANGED <<variant, connectionState, isMuted, refVars, playVars, playHist,
                 now, nSess, microtasks, nMsgs, toolResponses, dropped, cur, codecVars,
                 nativeRate>>

\* B: the processor exists only once onopen ran, so sessionPromise is resolved
AudioProcessB(s) ==
  /\ variant = "B" /\ Idle
  /\ s \in connectedProc
  /\ nBlocks < MaxBlocks
  /\ nBlocks' = nBlocks + 1
  /\ mutedAt' = Append(mutedAt, [muted |-> isMuted, running |-> sess[s].tr = "open"])
  /\ sent' = IF sess[s].capMuted THEN sent ELSE Append(sent, nBlocks + 1)
  /\ sentTo' = IF sess[s].capMuted THEN sentTo ELSE Append(sentTo, s)
  /\ frame' = IF sess[s].capMuted THEN frame
               ELSE pcmBlob("B", BlockSize, inputSampleRate("B", nativeRate), nBlocks + 1)
  /\ lastEvent' = "audioprocess"
  /\ UNCHANGED <<variant, connectionState, isMuted, refVars, activeSessionRef, playVars,
                 playHist, now, sess, nSess, microtasks, nMsgs, toolResponses, dropped,
                 cur, codecVars, nativeRate>>

\* the output device clock advances
Tick ==
  /\ Idle
  /\ now < MaxTime
  /\ now' = now + 1
  /\ lastEvent' = "tick"
  /\ UNCHANGED <<variant, connectionState, isMuted, refVars, activeSessionRef, playVars,
                 playHist, sess, nSess, microtasks, nMsgs, capVars, extVars>>

\* ---- specifications ------------------------------------------------------
\* the session lifecycle: start, device and transport outcomes, stop
Lifecycle ==
  \/ StartSessionA
  \/ StartSessionB
  \/ \E s \in Sessions : GetUserMediaOkA(s)
  \/ \E s \in Sessions : GetUserMediaFailA(s)
  \/ \E s \in Sessions : GetUserMediaOkB(s)
  \/ \E s \in Sessions : GetUserMediaFailB(s)
  \/ \E s \in Sessions : OnOpenA(s)
  \/ \E s \in Sessions : OnOpenB(s)
  \/ \E s \in Sessions : ConnectRejectA(s)
  \/ \E s \in Sessions : ConnectRejectB(s)
  \/ \E s \in Sessions : OnError(s)
  \/ \E s \in Sessions : OnCloseA(s)
  \/ \E s \in Sessions : OnCloseB(s)
  \/ EndSessionA
  \/ EndSessionB

\* inbound messages (at most n of them), playback completion and the clock
Playback(n) ==
  \/ \E s \in Sessions, dur \in Durations \cup {0}, intr \in BOOLEAN :
        nMsgs < n /\ OnMessage(s, dur, intr)
  \/ Resume
  \/ \E i \in 1..MaxMsgs : OnEnded(i)
  \/ Tick

\* the capture path and the mute button
Capture ==
  \/ ToggleMute
  \/ \E s \in Sessions : AudioProcessA(s)
  \/ \E s \in Sessions : AudioProcessB(s)

\* Spec: the controller over several sessions, with little inbound traffic
Next == Lifecycle \/ Playback(MaxLifeMsgs)

Spec == Init /\ [][Next]_vars

\* SpecPlay: the playback timeline of one session under full inbound traffic
NextPlay == (Lifecycle /\ nSess' <= MaxPlaySessions) \/ Playback(MaxMsgs)

SpecPlay == Init /\ [][NextPlay]_vars

\* SpecCapture: the controller with the capture path, no inbound traffic
NextCapture == Lifecycle \/ Capture

SpecCapture == Init /\ [][NextCapture]_vars

\* inbound messages of every shape (at most n of them)
Inbound(n) ==
  \/ \E s \in Sessions, tool \in ToolCalls, dur \in Durations \cup {0}, bad \in BOOLEAN,
        intr \in BOOLEAN : nMsgs < n /\ OnInbound(s, tool, dur, bad, intr)
  \/ ResumeTool
  \/ ResumeBad

\* SpecInbound: one session whose transport delivers messages with tool calls,
\* payloads that decode, payloads that do not, and interruptions
NextInbound ==
  \/ Lifecycle /\ nSess' <= MaxPlaySessions
  \/ Playback(MaxInMsgs)
  \/ Inbound(MaxInMsgs)

SpecInbound == Init /\ [][NextInbound]_vars

\* SpecAtomic: one session whose enqueues run as a read step and a write step
NextAtomic ==
  \/ MayRun(cur) /\ Lifecycle /\ nSess' <= MaxPlaySessions
  \/ \E s \in Sessions, dur \in Durations \cup {0}, intr \in BOOLEAN :
        MayRun(cur) /\ nMsgs < MaxInMsgs /\ OnMessage(s, dur, intr)
  \/ \E i \in 1..MaxInMsgs : MayRun(cur) /\ OnEnded(i)
  \/ MayRun(cur) /\ Tick
  \/ ResumeRead
  \/ ResumeWrite

SpecAtomic == Init /\ [][NextAtomic]_vars

\* SpecFrame: the controller and the capture path on devices of several rates
InitFrame ==
  /\ InitController
  /\ nativeRate \in NativeRates
  /\ decIn = NoDecode
  /\ sample = 0 /\ pcm = 0 /\ decoded = 0

SpecFrame == InitFrame /\ [][NextCapture]_vars

\* SpecCodec: encode one sample, decode the result
NextCodec == CreatePcmBlob \/ DecodeAudioData

SpecCodec == InitCodec /\ [][NextCodec]_vars

\* SpecLive: the lifecycle where every device request and every connect that
\* was started settles: the promise of getUserMedia resolves or rejects, and
\* so does the promise of ai.live.connect (or the transport reports an error)
GumSettles(s) ==
  \/ GetUserMediaOkA(s) \/ GetUserMediaFailA(s)
  \/ GetUserMediaOkB(s) \/ GetUserMediaFailB(s)

ConnectSettles(s) ==
  \/ OnOpenA(s) \/ OnOpenB(s)
  \/ ConnectRejectA(s) \/ ConnectRejectB(s)

SpecLive ==
  /\ Init /\ [][Lifecycle]_vars
  /\ \A s \in Sessions : WF_vars(GumSettles(s)) /\ WF_vars(ConnectSettles(s))

\* SpecDecode: decodeAudioData on inputs of every length and channel count
NextDecode == DecodeBuffer

SpecDecode == InitDecode /\ [][NextDecode]_vars

\* SpecQuant: the codec on samples that may lie outside [-1, 1]
SpecQuant == InitQuant /\ [][NextCodec]_vars

\* SpecApi: the lifecycle with startSession and endSession called in any state
NextApi ==
  \/ Lifecycle
  \/ StartAgainA
  \/ StartAgainB
  \/ EndSessionAgainA
  \/ EndSessionAgainB

SpecApi == Init /\ [][NextApi]_vars

\* ---- claims on the playback timeline (SpecPlay) ---------------------------
RECURSIVE SumDur(_, _)
\* the summed durations of the first n segments of a chain
SumDur(c, n) == IF n = 0 THEN 0 ELSE SumDur(c, n - 1) + sources[c[n]].dur

\* C1: segments enqueued with no flush or teardown in between, each no later
\* than the cursor, are gapless: the n-th starts at the first one's start plus
\* the durations of the n-1 before it, and the cursor is the end of the last.
C1_Gapless ==
  /\ \A n \in 1..Len(chain) :
        sources[chain[n]].start = sources[chain[1]].start + SumDur(chain, n - 1)
  /\ chain # <<>> =>
        nextStartTime = sources[chain[1]].start + SumDur(chain, Len(chain))

\* the scenario of the specification: 0.5, 0.3, 0.2 s enqueued at device time 0
C1_Witness ==
  /\ Len(chain) = 3
  /\ sources[chain[1]].at = 0
  /\ <<sources[chain[1]].dur, sources[chain[2]].dur, sources[chain[3]].dur>> = <<5, 3, 2>>
  /\ <<sources[chain[1]].start, sources[chain[2]].start, sources[chain[3]].start>> = <<0, 5, 8>>
  /\ nextStartTime = 10

FlushEvents == {"flush", "enqueueFlush"}

\* C2: when an interruption has been handled, every segment that was tracked is
\* stopped (none is left running because an earlier stop() hit a finished
\* node), the set is empty and the cursor is the device time.
C2_FlushStopsAll ==
  lastEvent \in FlushEvents =>
    /\ scheduledSources = {}
    /\ nextStartTime = now
    /\ \A i \in DOMAIN sources : sources[i].stopped \/ sources[i].ended

\* a flush that met a finished, still tracked segment ahead of a running one
C2_Witness ==
  /\ lastEvent \in FlushEvents
  /\ connectionState = CONNECTED /\ nSess = 1 /\ sess[1].tr = "open"
  /\ \E i, j \in DOMAIN sources :
        /\ i < j
        /\ ~sources[j].postFlush
        /\ sources[i].stopped /\ ~sources[i].ended /\ Finished(sources[i], now)
        /\ sources[j].stopped /\ ~sources[j].ended /\ ~Finished(sources[j], now)

\* C3: the first segment enqueued after an interruption starts at the device
\* time read at that enqueue.
C3_StartsNowAfterFlush ==
  \A i \in DOMAIN sources : sources[i].postFlush => sources[i].start = sources[i].at

\* an enqueue after a flush whose predecessor was scheduled to end later than
\* the device time of this enqueue (the pre-flush cursor lay in the future)
C3_Witness ==
  \E i \in DOMAIN sources :
     /\ i > 1
     /\ sources[i].postFlush
     /\ sources[i].at > 0
     /\ sources[i - 1].start + sources[i - 1].dur > sources[i].at

\* C4: once the interruption of a message is handled, no segment of a payload
\* that arrived before it is tracked (or gets scheduled).
C4_CancellationTotal ==
  \A i \in scheduledSources : sources[i].msg > lastIntr

\* ---- claims on the session controller (Spec) ------------------------------
\* capture released and playback timeline reset
TornDown ==
  /\ streamRef = 0 /\ inputSourceRef = 0 /\ processorRef = 0
  /\ scheduledSources = {}
  /\ nextStartTime = 0

\* the transitions the state machine of the specification names, each with
\* the handler that may take it; start from Error, a failed device request or
\* connect leading to Error, and stop from any state are granted as well,
\* because the specification states them elsewhere
SpecifiedTransition(from, to, by) ==
  \/ from = DISCONNECTED /\ to = CONNECTING /\ by = "start"
  \/ from = CONNECTING /\ to = CONNECTED /\ by = "open"
  \/ from = CONNECTED /\ to = DISCONNECTED /\ by \in {"endSession", "close"}
  \/ to = ERROR /\ by \in {"error", "reject", "gumFail"}
  \/ from = ERROR /\ to = DISCONNECTED /\ by = "endSession"
  \/ from = ERROR /\ to = CONNECTING /\ by = "start"
  \/ to = DISCONNECTED /\ by = "endSession"

\* C5: the session state changes only along the transitions of the state
\* machine: Disconnected -> Connecting on start, Connecting -> Connected on
\* open, Connected -> Disconnected on stop or close, any -> Error on a
\* transport error, Error -> Disconnected on stop; no other change is
\* reachable.
C5_OnlySpecifiedTransitions ==
  [][connectionState' # connectionState =>
       SpecifiedTransition(connectionState, connectionState', lastEvent')]_vars

C7_CloseAndErrorTearDown ==
  [][/\ (lastEvent' = "close" /\ connectionState = CONNECTED) =>
          (connectionState' = DISCONNECTED /\ TornDown')
     /\ lastEvent' = "error" => (connectionState' = ERROR /\ TornDown')]_vars

\* C9: a failed device request, a failed connect and a transport error each
\* leave the state Error with capture and playback torn down.
C9_FailureTearsDown ==
  [][lastEvent' \in {"gumFail", "reject", "error"} =>
       (connectionState' = ERROR /\ TornDown')]_vars

\* C10: from Disconnected or Error the state becomes Connecting or Connected
\* only by a startSession call.
C10_NoReconnectWithoutStart ==
  [][(connectionState \in {DISCONNECTED, ERROR}
        /\ connectionState' \in {CONNECTING, CONNECTED}) => lastEvent' = "start"]_vars

\* ---- claims on the capture path (SpecCapture) -----------------------------
Range(f) == {f[i] : i \in DOMAIN f}

\* C8: for a block delivered while its session is running (transport open), a
\* frame is sent if and only if the mute flag was false when the block was
\* delivered.
C8_SentIffUnmuted ==
  \A b \in 1..nBlocks : mutedAt[b].running => (b \in Range(sent) <=> ~mutedAt[b].muted)

\* ---- claims on startSession and endSession called in any state (SpecApi) ---
\* what startSession and the teardown act on: the state, the sessions and
\* their transports, the capture refs and devices, the playback timeline
controllerState == <<connectionState, sess, nSess, activeSessionRef, refVars, playVars>>

\* C11: startSession called while the state is Connecting or Connected changes
\* no state, requests no device and opens no further transport session.
C11_StartIsNoOpWhenActive ==
  [][lastEvent' = "startAgain" => UNCHANGED controllerState]_vars

C13_NoFramesAfterStop ==
  [][(lastEvent = "endSession" /\ lastEvent' # "start") =>
        (nBlocks' = nBlocks /\ sent' = sent)]_vars

\* ---- further claims on the playback timeline (SpecPlay) -------------------
\* the segments created by this step
NewSources == {j \in DOMAIN sources' : j \notin DOMAIN sources}

EndOf(src) == src.start + src.dur

\* C14: a newly scheduled segment starts at or after the scheduled end of
\* every segment that is in the scheduled set when it is scheduled, whatever
\* the arrival times of the payloads.
C14_NoOverlap ==
  [][\A j \in NewSources : \A i \in scheduledSources :
        sources'[j].start >= EndOf(sources[i])]_vars

\* a payload scheduled while an earlier segment, still tracked, had not played
\* to its end: the new segment waits for that end
C14_Witness ==
  \E i, j \in scheduledSources :
     /\ i < j
     /\ sources[j].at > sources[i].at
     /\ sources[j].at < EndOf(sources[i])
     /\ sources[j].start >= EndOf(sources[i])

\* C20: an enqueue reads the device time, starts the segment at
\* max(now, cursor), adds it to the scheduled set and sets the cursor to that
\* start plus the duration; with a stale cursor (cursor < now) the segment
\* starts at now.  (When the same message also carries the interruption flag,
\* the flush that follows empties the set and moves the cursor.)
C20_EnqueueAtMaxNowCursor ==
  [][\A j \in NewSources :
        /\ sources'[j].start = (IF now > nextStartTime THEN now ELSE nextStartTime)
        /\ nextStartTime < now => sources'[j].start = now
        /\ lastEvent' = "enqueue" =>
              /\ j \in scheduledSources'
              /\ nextStartTime' = sources'[j].start + sources'[j].dur]_vars

\* an enqueue that met a stale cursor: the first payload of a session, with
\* the cursor still at 0, scheduled after the device clock had advanced
C20_Witness ==
  /\ lastEvent = "enqueue"
  /\ lastIntr = 0
  /\ Len(sources) = 1 /\ 1 \in scheduledSources
  /\ sources[1].at > 0
  /\ sources[1].start = sources[1].at
  /\ nextStartTime = EndOf(sources[1])

\* ---- claims on inbound messages of every shape (SpecInbound) --------------
\* C15: segments are placed on the timeline in the arrival order of their
\* payloads: a payload is never scheduled behind a segment, still tracked (so
\* with no flush or reset in between), whose payload arrived after it.
C15_ArrivalOrder ==
  [][\A j \in NewSources : \A i \in scheduledSources :
        sources[i].msg < sources'[j].msg]_vars

\* C17: a payload that fails to decode is dropped: the handler run that meets
\* the failure leaves the connection state, the cursor, the scheduled set, the
\* capture refs and the transport as they were, and the handlers of later
\* messages stay queued.  (If the same message carries the interruption flag,
\* part_000 goes on to flush; that run is the interruption's, not the drop's.)
C17_BadPayloadDropped ==
  [][lastEvent' = "drop" =>
       /\ UNCHANGED <<connectionState, nextStartTime, scheduledSources, sess, refVars>>
       /\ microtasks' = Tail(microtasks)]_vars

\* a payload that arrived after a dropped one is scheduled behind a segment
\* that was tracked when the drop happened, in a session still connected
C17_Witness ==
  /\ connectionState = CONNECTED
  /\ lastEvent = "enqueue"
  /\ \E d \in dropped : \E j \in scheduledSources : sources[j].msg > d
  /\ \E s \in Sessions : sess[s].tr = "open" /\ streamRef = s

\* C18: the tool-call part of a message changes neither the cursor, nor the
\* scheduled set, nor the connection state, whatever the tool name and
\* arguments (answered, not answered, or throwing); when the handler run goes
\* on to the interruption branch of the same message, the cursor and the set
\* are what that branch alone makes them.
C18_ToolCallKeepsAudioState ==
  [][/\ lastEvent' \in {"tool", "toolResume", "toolSend", "toolThrow"} =>
          UNCHANGED <<nextStartTime, scheduledSources, connectionState>>
     /\ lastEvent' = "toolFlush" =>
          /\ nextStartTime' = cursorAfterFlush(now) /\ scheduledSources' = {}
          /\ UNCHANGED connectionState]_vars

\* a tool call was answered while audio was scheduled ahead of the device time
C18_Witness ==
  /\ lastEvent \in {"toolSend", "toolResume"}
  /\ toolResponses # <<>>
  /\ scheduledSources # {}
  /\ nextStartTime > now

\* ---- claims on overlapping sessions (Spec) --------------------------------
\* C16: once startSession has begun a new session, the transport of an
\* earlier session no longer acts on the controller: its close or error
\* changes neither the connection state, nor the capture refs and devices the
\* new session holds, nor the playback timeline (every earlier session being
\* closed when the new one begins, no such event is left to come).
C16_SessionsExclusive ==
  [][\A s \in Sessions :
        (s < nSess /\ sess'[s].tr # sess[s].tr /\ lastEvent' \in {"close", "error"}) =>
            UNCHANGED <<connectionState, refVars, playVars>>]_vars

\* ---- claims on the sample codec (SpecCodec) --------------------------------
\* C19: for every sample s in [-1, 1], decoding the 16-bit value that
\* createPcmBlob stores for s gives a value within 1/32768 of s.
C19_RoundTripWithinOneStep ==
  lastEvent = "decode" => Abs(sample - decoded) * 32768 <= SampleDen

\* C19 as amended: the decoded value is within 1/32768 of s for s <= 0, and
\* less than 2/32768 away from s for s > 0 (non-negative samples are scaled
\* by 32767 and decoded by 32768).
C19_RoundTripAmended ==
  lastEvent = "decode" =>
    /\ sample <= 0 => Abs(sample - decoded) * 32768 <= SampleDen
    /\ sample > 0 => Abs(sample - decoded) * 32768 < 2 * SampleDen

\* s = 49153/65536 (0.75001526): stored as 24575, decoded to 24575/32768,
\* which is 1.5/32768 below s
C19_Witness ==
  /\ lastEvent = "decode"
  /\ sample = 49153
  /\ pcm = 24575
  /\ Abs(sample - decoded) * 32768 > SampleDen

\* ---- claims on the state after a teardown (Spec) ---------------------------
\* C21: when endSession has returned, the transport session of the preceding
\* start is closed (close() was called on it): none is left open.
C21_ClosedAfterStop ==
  lastEvent = "endSession" => \A s \in Sessions : sess[s].tr # "open"

\* C22: whenever the state is Disconnected or Error, the scheduled set is
\* empty, also when audio messages arrive after the teardown.
C22_NothingScheduledWhenDown ==
  connectionState \in {DISCONNECTED, ERROR} => scheduledSources = {}

\* C23: whenever the state is Disconnected or Error, the microphone is
\* released: streamRef, inputSourceRef and processorRef are null, no track is
\* live and no processor is connected.
C23_MicReleasedWhenDown ==
  connectionState \in {DISCONNECTED, ERROR} =>
    /\ streamRef = 0 /\ inputSourceRef = 0 /\ processorRef = 0
    /\ liveTracks = {} /\ connectedProc = {}

\* ---- further claims on the playback timeline (SpecPlay) --------------------
\* the handlers that run stopAudio, which resets the cursor to 0
ResetEvents == {"gumFail", "reject", "error", "close", "endSession", "endSessionAgain"}

\* C25: nextStartTime never decreases in a step that is neither a flush nor a
\* teardown reset, and every enqueue leaves it at or above both its previous
\* value and the device time read at that enqueue.
C25_CursorMonotone ==
  [][/\ lastEvent' \notin (FlushEvents \cup ResetEvents) => nextStartTime' >= nextStartTime
     /\ \A j \in NewSources :
          /\ EndOf(sources'[j]) >= nextStartTime
          /\ EndOf(sources'[j]) >= sources'[j].at
          /\ lastEvent' = "enqueue" => nextStartTime' = EndOf(sources'[j])]_vars

\* a segment was enqueued while the cursor was ahead of the device clock, and
\* the cursor moved on from there
C25_Witness ==
  /\ lastEvent = "enqueue"
  /\ Len(sources) >= 2
  /\ sources[Len(sources)].start > sources[Len(sources)].at
  /\ nextStartTime > sources[Len(sources)].start

\* C26: the completion callback removes a segment that played to its end from
\* the scheduled set, and it never runs for a segment that a flush cancelled.
C26_EndedOnlyNatural ==
  [][lastEvent' = "ended" =>
       \A i \in DOMAIN sources :
         (sources'[i].ended /\ ~sources[i].ended) =>
           /\ i \notin scheduledSources'
           /\ ~sources[i].cancelled]_vars

C27_NoCaptureWhileConnecting ==
  connectionState = CONNECTING =>
    /\ streamRef = 0 /\ liveTracks = {} /\ connectedProc = {}
    /\ \A s \in Sessions : sess[s].pend = <<>>

\* ---- further claims on inbound messages (SpecInbound) ----------------------
\* C28: every function call received in a tool-call message gets a function
\* response, whatever the tool name: when the handler has read a call whose
\* arguments are well formed, the response for that message is on its way to
\* sendToolResponse.
C28_EveryCallAnswered ==
  [][(nMsgs' = nMsgs + 1 /\ lastEvent' \in {"tool", "toolFlush"}) =>
       \E k \in DOMAIN microtasks' :
         /\ microtasks'[k].msg = nMsgs'
         /\ microtasks'[k].stage \in {"tool", "toolSend"}]_vars

C30_FrameLength ==
  frame # NoFrame =>
    /\ frame.bytes = 2 * frame.samples
    /\ frame.samples * frame.inRate >= frame.len * 16000
    /\ (frame.samples - 1) * frame.inRate < frame.len * 16000
    /\ (frame.len = 4096 /\ frame.inRate = 48000) =>
         (frame.samples = 1366 /\ frame.bytes = 2732)

\* the frame of a 4096-sample block of a 48 kHz device was handed to the
\* transport
C30_Witness ==
  /\ variant = "B" /\ nativeRate = 48000
  /\ frame # NoFrame /\ frame.block \in Range(sent)
  /\ frame.len = 4096 /\ frame.samples = 1366

\* ---- claims on the quantization of a block (SpecQuant) ---------------------
\* the sample clamped to [-1, 1]
C31_Clamped == IF sample > SampleDen THEN SampleDen
               ELSE IF sample < -SampleDen THEN -SampleDen ELSE sample

\* C31: when the capture rate is the 16 kHz target, the frame of a block is
\* its direct quantization: as many samples as the block has, and each one
\* the clamped input sample times 32768 (negative) or times 32767
\* (non-negative), truncated toward zero.
C31_DirectQuantization ==
  (lastEvent \in {"encode", "decode"} /\ frame.inRate = 16000) =>
    /\ frame.samples = frame.len
    /\ C31_Clamped < 0 =>
         /\ pcm * SampleDen >= C31_Clamped * 32768
         /\ pcm * SampleDen < C31_Clamped * 32768 + SampleDen
    /\ C31_Clamped >= 0 =>
         /\ pcm * SampleDen <= C31_Clamped * 32767
         /\ pcm * SampleDen > C31_Clamped * 32767 - SampleDen

\* a sample above 1.0 in a block of a 16 kHz context: clamped, stored as 32767
C31_Witness ==
  /\ lastEvent = "encode"
  /\ frame.inRate = 16000 /\ frame.samples = 4096
  /\ sample > SampleDen /\ pcm = 32767

\* ---- claims on decodeAudioData (SpecDecode) --------------------------------
\* C32: decodeAudioData fails, and returns no buffer, whenever the byte length
\* of its input is not a multiple of 2 * numChannels; for every length that
\* is one it succeeds with byteLength / (2 * numChannels) frames per channel.
C32_LengthChecked ==
  lastEvent = "decodeBuffer" =>
    IF decIn.bytes % (2 * decIn.ch) # 0
    THEN decOut.status = "error" /\ decOut.frames = 0
    ELSE decOut.status = "ok" /\ decOut.frames * 2 * decIn.ch = decIn.bytes

\* ---- termination of the connection attempt (SpecLive) ----------------------
\* C33: no session stays in Connecting forever: when every device request and
\* every connect settles, a state of Connecting is always followed by
\* Connected, Error or Disconnected.
C33_ConnectingEnds ==
  (connectionState = CONNECTING) ~> (connectionState \in {CONNECTED, ERROR, DISCONNECTED})

\* the second session of a run has gone from Connecting to Connected
C33_Witness ==
  /\ nSess = 2 /\ lastEvent = "open"
  /\ sess[2].tr = "open" /\ connectionState = CONNECTED

\* ---- order of the frames (SpecCapture) -------------------------------------
\* C34: the frames reach the transport of their session in the order their
\* blocks were captured, each at most once, the frames whose send waited for
\* the session to open included.
C34_FramesInCaptureOrder ==
  \A i, j \in DOMAIN sent :
    /\ i # j => sent[i] # sent[j]
    /\ (i < j /\ sentTo[i] = sentTo[j]) => sent[i] < sent[j]

\* two blocks were captured while the session was still opening, and both
\* frames went out when it opened
C34_Witness ==
  /\ variant = "A" /\ lastEvent = "open"
  /\ Len(sent) = 2 /\ sent = <<1, 2>>
  /\ mutedAt[1].running = FALSE /\ mutedAt[2].running = FALSE

====
